---- MODULE Spec2Model ----
(***************************************************************************)
(* Model of dejavu/database_sqla.py: the SQLAlchemy fingerprint store.     *)
(* The two tables are sets of rows, a session is a unit of work whose      *)
(* pending rows are flushed row by row at commit, and every public method  *)
(* of SQLADatabase is one action.                                          *)
(***************************************************************************)
EXTENDS Integers, Sequences, FiniteSets, TLC

\* ---------------------------------------------------------------- bounds
\* Highest song_id the autoincrement column hands out.
MaxSongs == 2
\* Most rows the fingerprints table holds.
MaxFingerprints == 2
\* Longest batch given to insert_hashes.
MaxBatch == 2
\* Longest probe given to return_matches in the store machine.
MaxProbe == 2
\* Longest probe given to return_matches in the match machine.
MaxMatchProbe == 3
\* Most rows the fingerprints table holds in the match machine.
MaxMatchStored == 2
\* Longest batch given to insert_hashes in the match machine.
MaxMatchBatch == 2
\* Values per IN clause: _grouper(mapper.keys(), 999).  Scaled from 999 so
\* that a probe of three distinct hashes spans two chunks, the second padded.
GrouperN == 2

\* ---------------------------------------------------------------- values
\* Python None where an integer identifier is expected.
NoneId == 0
\* Python None among bytes values (the fillvalue of zip_longest).
PyNone == <<-1>>
NoExc == "none"

Names == {"a", "b"}
\* Hexadecimal strings are sequences of characters.
FileHashes == {<<"0", "a">>, <<"0", "b">>}
Hashes == {<<"0", "a">>, <<"0", "A">>}
MatchHashes == {<< >>, <<"0", "a">>, <<"0", "b">>, <<"0", "c">>}
Offsets == {5, 9}
Sids == 0..MaxSongs

\* ---------------------------------------------------------------- hex <-> bytes
HexVal(c) ==
  CASE c = "0" -> 0
    [] c = "a" -> 10
    [] c = "A" -> 10
    [] c = "b" -> 11
    [] c = "B" -> 11
    [] c = "c" -> 12
    [] c = "C" -> 12

\* bytes.fromhex: two hexadecimal digits per byte, either case.
fromhex(s) == [i \in 1..(Len(s) \div 2) |-> 16 * HexVal(s[2 * i - 1]) + HexVal(s[2 * i])]

HexDigit(n) ==
  CASE n = 0 -> "0"
    [] n = 10 -> "a"
    [] n = 11 -> "b"
    [] n = 12 -> "c"

\* bytes.hex: lower-case digits.
hex(b) == [i \in 1..(2 * Len(b)) |->
             IF i % 2 = 1 THEN HexDigit(b[(i + 1) \div 2] \div 16)
                          ELSE HexDigit(b[i \div 2] % 16)]

UpperChar(c) == CASE c = "a" -> "A" [] c = "b" -> "B" [] c = "c" -> "C" [] OTHER -> c

\* str.upper
upper(s) == [i \in 1..Len(s) |-> UpperChar(s[i])]

\* The callers that run insert_song side by side, and the call none of them has made.
Workers == {"w1", "w2"}
NoCall == [pc |-> "none", args |-> << >>, exc |-> NoExc, ret |-> << >>]

\* ---------------------------------------------------------------- state
VARIABLES
  tables,        \* TRUE once create_all has created songs and fingerprints
  songs,         \* rows of the songs table
  fingerprints,  \* rows of the fingerprints table
  song_seq,      \* the song_id given to the last song inserted
  issued,        \* (name, file_hash) -> song_id last returned by insert_song, 0 if none or pruned
  last,          \* the last call: operation, arguments, session calls, outcome
  sessions       \* worker -> how far its insert_song call has got

vars == <<tables, songs, fingerprints, song_seq, issued, last, sessions>>

\* The database as one value.
Store == [tables |-> tables, songs |-> songs, fingerprints |-> fingerprints, song_seq |-> song_seq]

\* Song(name=..., file_sha1=...): the setter stores bytes.fromhex(file_sha1),
\* fingerprinted takes the column default.
Song(id, song_name, file_hash) ==
  [song_id |-> id, name |-> song_name, fingerprinted |-> FALSE, file_sha1 |-> fromhex(file_hash)]

\* Fingerprint(hash=..., song_id=..., song_offset=...): the setter stores bytes.fromhex(hash).
Fingerprint(h, sid, offset) ==
  [hash |-> fromhex(h), song_id |-> sid, song_offset |-> offset]

\* ---------------------------------------------------------------- the backend
\* INSERT of one fingerprints row into a table whose song_id references nothing.
InsertFingerprint_no_fk(st, row) ==
  IF ~st.tables THEN [store |-> st, exc |-> "OperationalError"]
  ELSE IF row \in st.fingerprints THEN [store |-> st, exc |-> "IntegrityError"]
  ELSE [store |-> [st EXCEPT !.fingerprints = @ \cup {row}], exc |-> NoExc]

\* INSERT of one fingerprints row: the table must exist, the referenced song
\* must exist (ForeignKey, nullable=False) and the triple must be new (pk_constraint).
InsertFingerprint(st, row) ==
  IF ~st.tables THEN [store |-> st, exc |-> "OperationalError"]
  ELSE IF row \in st.fingerprints THEN [store |-> st, exc |-> "IntegrityError"]
  ELSE IF \A s \in st.songs : s.song_id # row.song_id THEN [store |-> st, exc |-> "IntegrityError"]
  ELSE [store |-> [st EXCEPT !.fingerprints = @ \cup {row}], exc |-> NoExc]

\* The largest song_id stored, 0 when there is none.
MaxSongId(st) ==
  IF st.songs = {} THEN 0
  ELSE CHOOSE m \in {s.song_id : s \in st.songs} : \A s \in st.songs : s.song_id <= m

\* autoincrement=True leaves the next song_id to the backend, which
\* create_engine takes from the connection string: a sequence or counter
\* continues after the last value it gave out, a row-id key (SQLite's INTEGER
\* PRIMARY KEY) continues after the largest song_id stored.  These are the
\* values a backend may continue after.
Autoincrement(st) == {st.song_seq, MaxSongId(st)}

\* INSERT of one songs row into a table that has no unique_constraint.
InsertSong_no_unique(st, song_name, file_hash, seq) ==
  IF ~st.tables THEN [store |-> st, exc |-> "OperationalError", id |-> NoneId]
  ELSE [store |-> [st EXCEPT !.songs = @ \cup {Song(seq + 1, song_name, file_hash)},
                              !.song_seq = seq + 1],
        exc |-> NoExc, id |-> seq + 1]

\* INSERT of one songs row: unique_constraint on (name, file_sha1), song_id
\* autoincrement after seq.
InsertSong(st, song_name, file_hash, seq) ==
  IF ~st.tables THEN [store |-> st, exc |-> "OperationalError", id |-> NoneId]
  ELSE IF \E s \in st.songs : s.name = song_name /\ s.file_sha1 = fromhex(file_hash)
    THEN [store |-> st, exc |-> "IntegrityError", id |-> NoneId]
  ELSE [store |-> [st EXCEPT !.songs = @ \cup {Song(seq + 1, song_name, file_hash)},
                              !.song_seq = seq + 1],
        exc |-> NoExc, id |-> seq + 1]

\* session.flush(): the pending fingerprints are inserted in the order they
\* were added; the first failing INSERT raises.
RECURSIVE Flush(_, _)
Flush(st, pending) ==
  IF pending = << >> THEN [store |-> st, exc |-> NoExc]
  ELSE LET r == InsertFingerprint(st, Head(pending))
       IN IF r.exc # NoExc THEN r ELSE Flush(r.store, Tail(pending))

\* ---------------------------------------------------------------- session_scope
\* What the body of a "with self.session_scope() as session" block did:
\*   txn      the store as the transaction sees it after the body's statements
\*   pending  the objects given to session.add and not yet flushed
\*   exc      the exception the body raised, NoExc if none
\*   exit     how control left the block: "end", "return" or "raise"
\*   ret      the value returned
Body(txn, pending, exc, exit, ret) ==
  [txn |-> txn, pending |-> pending, exc |-> exc, exit |-> exit, ret |-> ret]

\* session_scope without the finally clause: a failing body leaves the session open.
session_scope_no_finally(st, body) ==
  IF body.exc # NoExc
  THEN [store |-> st, exc |-> body.exc, ret |-> << >>,
        calls |-> <<"Session", "rollback">>, committed |-> FALSE]
  ELSE LET c == Flush(body.txn, body.pending)
       IN IF c.exc = NoExc
          THEN [store |-> c.store, exc |-> NoExc, ret |-> body.ret,
                calls |-> <<"Session", "commit", "close">>, committed |-> TRUE]
          ELSE [store |-> st, exc |-> c.exc, ret |-> << >>,
                calls |-> <<"Session", "commit", "rollback">>, committed |-> FALSE]

\* session_scope on an autocommit connection: the rows flushed before the
\* failing one stay.
session_scope_autocommit(st, body) ==
  IF body.exc # NoExc
  THEN [store |-> st, exc |-> body.exc, ret |-> << >>,
        calls |-> <<"Session", "rollback", "close">>, committed |-> FALSE]
  ELSE LET c == Flush(body.txn, body.pending)
       IN IF c.exc = NoExc
          THEN [store |-> c.store, exc |-> NoExc, ret |-> body.ret,
                calls |-> <<"Session", "commit", "close">>, committed |-> TRUE]
          ELSE [store |-> c.store, exc |-> c.exc, ret |-> << >>,
                calls |-> <<"Session", "commit", "rollback", "close">>, committed |-> FALSE]

\* session_scope(): yield, commit, and on any exception rollback and re-raise;
\* close in the finally clause.  The calls made on the session are recorded.
session_scope(st, body) ==
  IF body.exc # NoExc
  THEN [store |-> st, exc |-> body.exc, ret |-> << >>,
        calls |-> <<"Session", "rollback", "close">>, committed |-> FALSE]
  ELSE LET c == Flush(body.txn, body.pending)
       IN IF c.exc = NoExc
          THEN [store |-> c.store, exc |-> NoExc, ret |-> body.ret,
                calls |-> <<"Session", "commit", "close">>, committed |-> TRUE]
          ELSE [store |-> st, exc |-> c.exc, ret |-> << >>,
                calls |-> <<"Session", "commit", "rollback", "close">>, committed |-> FALSE]

\* ---------------------------------------------------------------- queries
\* Query.all(): the rows in the order the backend returns them.
RECURSIVE all(_)
all(rows) ==
  IF rows = {} THEN << >>
  ELSE LET r == CHOOSE x \in rows : TRUE IN <<r>> \o all(rows \ {r})

\* session.query(Song).get(sid): the rows with that primary key, none for None.
QueryGet(st, sid) == {s \in st.songs : s.song_id = sid}

\* session.query(Song).filter_by(fingerprinted=flag)
FilterByFingerprinted(st, flag) == {s \in st.songs : s.fingerprinted = flag}

\* _song_to_dict: fingerprinted as 1 or 0, file_sha1 as upper-case hexadecimal.
song_to_dict(song) ==
  [song_id |-> song.song_id, song_name |-> song.name,
   fingerprinted |-> IF song.fingerprinted = TRUE THEN 1 ELSE 0,
   file_sha1 |-> upper(hex(song.file_sha1))]

\* The DELETE on a backend that does not cascade.
DeleteUnfingerprinted_no_cascade(st) ==
  [st EXCEPT !.songs = {s \in @ : s.fingerprinted}]

\* DELETE FROM songs WHERE fingerprinted = false; the fingerprints of the
\* deleted songs go with them (ForeignKey ... ondelete="CASCADE").
DeleteUnfingerprinted(st) ==
  LET gone == {s.song_id : s \in FilterByFingerprinted(st, FALSE)}
  IN [st EXCEPT !.songs = {s \in @ : s.song_id \notin gone},
                !.fingerprints = {f \in @ : f.song_id \notin gone}]

\* int(h[1]) of an integer offset.
int(x) == x

\* ---------------------------------------------------------------- bodies of the with blocks
Raise(st, exc) == Body(st, << >>, exc, "raise", << >>)

get_num_songs_body(st) ==
  IF ~st.tables THEN Raise(st, "OperationalError")
  ELSE Body(st, << >>, NoExc, "return", <<Cardinality(FilterByFingerprinted(st, TRUE))>>)

get_num_fingerprints_body(st) ==
  IF ~st.tables THEN Raise(st, "OperationalError")
  ELSE Body(st, << >>, NoExc, "return", <<Cardinality(st.fingerprints)>>)

\* set_song_fingerprinted that flips the flag: song.fingerprinted = not song.fingerprinted
set_song_fingerprinted_body_toggle(st, sid) ==
  IF ~st.tables THEN Raise(st, "OperationalError")
  ELSE IF QueryGet(st, sid) = {} THEN Raise(st, "AttributeError")
  ELSE Body([st EXCEPT !.songs = {IF s.song_id = sid THEN [s EXCEPT !.fingerprinted = ~@] ELSE s
                                   : s \in @}],
            << >>, NoExc, "end", << >>)

\* song = session.query(Song).get(sid); song.fingerprinted = True
set_song_fingerprinted_body(st, sid) ==
  IF ~st.tables THEN Raise(st, "OperationalError")
  ELSE IF QueryGet(st, sid) = {} THEN Raise(st, "AttributeError")
  ELSE Body([st EXCEPT !.songs = {IF s.song_id = sid THEN [s EXCEPT !.fingerprinted = TRUE] ELSE s
                                   : s \in @}],
            << >>, NoExc, "end", << >>)

\* get_songs without the fingerprinted filter.
get_songs_body_unfiltered(st) ==
  IF ~st.tables THEN Raise(st, "OperationalError")
  ELSE LET rows == all(st.songs)
       IN Body(st, << >>, NoExc, "end", [i \in 1..Len(rows) |-> song_to_dict(rows[i])])

\* The generator is run to exhaustion: one dict per fingerprinted song.
get_songs_body(st) ==
  IF ~st.tables THEN Raise(st, "OperationalError")
  ELSE LET rows == all(FilterByFingerprinted(st, TRUE))
       IN Body(st, << >>, NoExc, "end", [i \in 1..Len(rows) |-> song_to_dict(rows[i])])

\* _song_to_dict(None) is None: the empty tuple stands for it.
get_song_by_id_body(st, sid) ==
  IF ~st.tables THEN Raise(st, "OperationalError")
  ELSE LET rows == all(QueryGet(st, sid))
       IN Body(st, << >>, NoExc, "return", [i \in 1..Len(rows) |-> song_to_dict(rows[i])])

insert_body(st, h, sid, offset) ==
  Body(st, <<Fingerprint(h, sid, offset)>>, NoExc, "end", << >>)

\* insert_song looking the song up by name and by the hexadecimal file hash,
\* which no stored bytes value equals.
insert_song_body_by_hash(st, song_name, file_hash, seq) ==
  IF ~st.tables THEN Raise(st, "OperationalError")
  ELSE LET found == {s \in st.songs : s.name = song_name /\ s.file_sha1 = file_hash}
       IN IF Cardinality(found) > 1 THEN Raise(st, "MultipleResultsFound")
          ELSE IF found # {} THEN Body(st, << >>, NoExc, "return", <<(CHOOSE s \in found : TRUE).song_id>>)
          ELSE LET r == InsertSong(st, song_name, file_hash, seq)
               IN IF r.exc # NoExc THEN Raise(st, r.exc)
                  ELSE Body(r.store, << >>, NoExc, "return", <<r.id>>)

\* one_or_none() on the songs of that name, then either the existing
\* identifier or a new row flushed inside the transaction.
insert_song_body(st, song_name, file_hash, seq) ==
  IF ~st.tables THEN Raise(st, "OperationalError")
  ELSE LET found == {s \in st.songs : s.name = song_name}
       IN IF Cardinality(found) > 1 THEN Raise(st, "MultipleResultsFound")
          ELSE IF found # {} THEN Body(st, << >>, NoExc, "return", <<(CHOOSE s \in found : TRUE).song_id>>)
          ELSE LET r == InsertSong(st, song_name, file_hash, seq)
               IN IF r.exc # NoExc THEN Raise(st, r.exc)
                  ELSE Body(r.store, << >>, NoExc, "return", <<r.id>>)

\* [(f.sid, f.song_offset) for f in ...all()]: Fingerprint has no attribute sid.
get_iterable_kv_pairs_body(st) ==
  IF ~st.tables THEN Raise(st, "OperationalError")
  ELSE IF st.fingerprints # {} THEN Raise(st, "AttributeError")
  ELSE Body(st, << >>, NoExc, "return", << >>)

\* insert_hashes that leaves out the last pair of the batch.
insert_hashes_body_skip_last(st, sid, hashes) ==
  Body(st, [i \in 1..(Len(hashes) - 1) |-> Fingerprint(hashes[i][1], sid, int(hashes[i][2]))],
       NoExc, "end", << >>)

insert_hashes_body(st, sid, hashes) ==
  Body(st, [i \in 1..Len(hashes) |-> Fingerprint(hashes[i][1], sid, int(hashes[i][2]))],
       NoExc, "end", << >>)

\* ---------------------------------------------------------------- return_matches
\* mapper[bytes.fromhex(hash)] = offset: a dict keeps its keys in the order of
\* first insertion and the value of the last assignment.
RECURSIVE MapperFill(_, _)
MapperFill(hashes, keys) ==
  IF hashes = << >> THEN keys
  ELSE MapperFill(Tail(hashes),
                  IF \E i \in DOMAIN keys : keys[i] = fromhex(Head(hashes)[1]) THEN keys
                  ELSE Append(keys, fromhex(Head(hashes)[1])))

\* mapper.keys()
MapperKeys(hashes) == MapperFill(hashes, << >>)

\* mapper that keeps the offset of the first occurrence of a key.
MapperGet_first(hashes, k) ==
  LET at == {i \in DOMAIN hashes : fromhex(hashes[i][1]) = k}
  IN hashes[CHOOSE i \in at : \A j \in at : i <= j][2]

\* mapper[key]
MapperGet(hashes, k) ==
  LET at == {i \in DOMAIN hashes : fromhex(hashes[i][1]) = k}
  IN hashes[CHOOSE i \in at : \A j \in at : j <= i][2]

\* filter(None, values): the values that are true; None and b'' are not.
RECURSIVE FilterNone(_)
FilterNone(values) ==
  IF values = << >> THEN << >>
  ELSE IF Head(values) = PyNone \/ Head(values) = << >> THEN FilterNone(Tail(values))
  ELSE <<Head(values)>> \o FilterNone(Tail(values))

\* zip instead of zip_longest: the incomplete last tuple is dropped.
ZipShortest(iterable, n) ==
  [c \in 1..(Len(iterable) \div n) |-> [j \in 1..n |-> iterable[(c - 1) * n + j]]]

\* zip_longest(fillvalue=None, *[iter(iterable)] * n): consecutive tuples of
\* n values, the last one padded with the fill value.
ZipLongest(iterable, n) ==
  [c \in 1..((Len(iterable) + n - 1) \div n) |->
     [j \in 1..n |-> IF (c - 1) * n + j <= Len(iterable) THEN iterable[(c - 1) * n + j] ELSE PyNone]]

\* _grouper(iterable, n)
grouper(iterable, n) ==
  LET z == ZipLongest(iterable, n) IN [c \in DOMAIN z |-> FilterNone(z[c])]

\* The lookup with == on the first value in place of IN.
QueryIn_first(st, split) == all({f \in st.fingerprints : split # << >> /\ split[1] = f.hash})

\* session.query(Fingerprint).filter(Fingerprint._hash.in_(split)).all()
QueryIn(st, split) == all({f \in st.fingerprints : \E i \in DOMAIN split : split[i] = f.hash})

\* fingerprints += ...all() for every split
RECURSIVE Concat(_)
Concat(lists) == IF lists = << >> THEN << >> ELSE Head(lists) \o Concat(Tail(lists))

MatchedRows(st, hashes) ==
  LET splits == grouper(MapperKeys(hashes), GrouperN)
  IN Concat([c \in DOMAIN splits |-> QueryIn(st, splits[c])])

\* The generator is run to exhaustion: (f.song_id, f.song_offset - mapper[f._hash]) for every row.
return_matches_body(st, hashes) ==
  IF ~st.tables /\ MapperKeys(hashes) # << >> THEN Raise(st, "OperationalError")
  ELSE LET rows == MatchedRows(st, hashes)
       IN Body(st, << >>, NoExc, "end",
               [i \in 1..Len(rows) |->
                  <<rows[i].song_id, rows[i].song_offset - MapperGet(hashes, rows[i].hash)>>])

\* ---------------------------------------------------------------- the maintenance operations
\* delete_unfingerprinted_songs(): a session of its own, no try/finally; a
\* failing DELETE leaves it open.
delete_unfingerprinted_songs_run(st) ==
  IF ~st.tables
  THEN [store |-> st, exc |-> "OperationalError", ret |-> << >>,
        calls |-> <<"Session">>, committed |-> FALSE]
  ELSE [store |-> DeleteUnfingerprinted(st), exc |-> NoExc, ret |-> << >>,
        calls |-> <<"Session", "commit", "expire_all", "close">>, committed |-> TRUE]

\* Base.metadata.create_all(self.Engine): creates the tables that are missing.
create_all(st) == [st EXCEPT !.tables = TRUE]

\* setup that drops the tables before it creates them.
setup_run_recreate(st) ==
  delete_unfingerprinted_songs_run([create_all(st) EXCEPT !.songs = {}, !.fingerprints = {}])

\* setup(): create_all, then delete_unfingerprinted_songs.
setup_run(st) == delete_unfingerprinted_songs_run(create_all(st))

\* Table.drop() without a bind: the metadata of declarative_base() is bound
\* to no engine, so the call raises before any statement is sent.
TableDrop(st) == [store |-> st, exc |-> "UnboundExecutionError"]

empty_run(st) ==
  LET d == TableDrop(st)
  IN IF d.exc # NoExc
     THEN [store |-> st, exc |-> d.exc, ret |-> << >>, calls |-> << >>, committed |-> FALSE]
     ELSE setup_run(d.store)

\* ---------------------------------------------------------------- recording a call
SongIds(rows) == {s.song_id : s \in rows}

NoBody == Body(Store, << >>, NoExc, "end", << >>)

\* The caller is idle between calls.
Idle ==
  [op |-> "idle", args |-> << >>, scoped |-> FALSE, body_exc |-> NoExc, exit |-> "end",
   calls |-> << >>, committed |-> FALSE, exc |-> NoExc, ret |-> << >>,
   pre |-> [tables |-> FALSE, songs |-> {}, fingerprints |-> {}, song_seq |-> 0], prior |-> NoneId]

\* The store becomes r.store and the call is remembered with the store it
\* started from and, for insert_song, the identifier issued for its arguments before.
Record(op, args, scoped, body, r) ==
  \E b \in {body} : \E o \in {r} :
       /\ tables' = o.store.tables
       /\ songs' = o.store.songs
       /\ fingerprints' = o.store.fingerprints
       /\ song_seq' = o.store.song_seq
       /\ issued' = [k \in DOMAIN issued |->
                       IF op = "insert_song" /\ o.exc = NoExc /\ k = args THEN o.ret[1]
                       ELSE IF issued[k] \in SongIds(o.store.songs) THEN issued[k] ELSE NoneId]
       /\ last' = [op |-> op, args |-> args, scoped |-> scoped, body_exc |-> b.exc,
                   exit |-> b.exit, calls |-> o.calls, committed |-> o.committed,
                   exc |-> o.exc, ret |-> o.ret, pre |-> Store,
                   prior |-> IF op = "insert_song" THEN issued[args] ELSE NoneId]
       /\ UNCHANGED sessions

\* The body is run once and its outcome handed to session_scope.
Scoped(op, args, body) == \E b \in {body} : Record(op, args, TRUE, b, session_scope(Store, b))

\* ---------------------------------------------------------------- the operations
setup == Record("setup", << >>, FALSE, NoBody, setup_run(Store))

empty == Record("empty", << >>, FALSE, NoBody, empty_run(Store))

delete_unfingerprinted_songs ==
  Record("delete_unfingerprinted_songs", << >>, FALSE, NoBody, delete_unfingerprinted_songs_run(Store))

get_num_songs == Scoped("get_num_songs", << >>, get_num_songs_body(Store))

get_num_fingerprints == Scoped("get_num_fingerprints", << >>, get_num_fingerprints_body(Store))

\* sid is None: a warning is logged and no session is opened.
set_song_fingerprinted(sid) ==
  IF sid = NoneId
  THEN Record("set_song_fingerprinted", <<sid>>, FALSE, NoBody,
              [store |-> Store, exc |-> NoExc, ret |-> << >>, calls |-> << >>, committed |-> FALSE])
  ELSE Scoped("set_song_fingerprinted", <<sid>>, set_song_fingerprinted_body(Store, sid))

get_songs == Scoped("get_songs", << >>, get_songs_body(Store))

get_song_by_id(sid) == Scoped("get_song_by_id", <<sid>>, get_song_by_id_body(Store, sid))

insert(h, sid, offset) == Scoped("insert", <<h, sid, offset>>, insert_body(Store, h, sid, offset))

insert_song(song_name, file_hash) ==
  \E seq \in Autoincrement(Store) :
    /\ ~tables \/ seq < MaxSongs \/ \E s \in songs : s.name = song_name
    /\ Scoped("insert_song", <<song_name, file_hash>>, insert_song_body(Store, song_name, file_hash, seq))

get_iterable_kv_pairs == Scoped("get_iterable_kv_pairs", << >>, get_iterable_kv_pairs_body(Store))

insert_hashes(sid, hashes) ==
  Scoped("insert_hashes", <<sid, hashes>>, insert_hashes_body(Store, sid, hashes))

return_matches(hashes) == Scoped("return_matches", <<hashes>>, return_matches_body(Store, hashes))

\* ---------------------------------------------------------------- the store machine
\* The table would hold at most cap rows with the batch stored.
Fits(sid, hashes, cap) ==
  Cardinality(fingerprints \cup {Fingerprint(hashes[i][1], sid, int(hashes[i][2])) : i \in DOMAIN hashes}) <= cap

SeqsUpTo(S, n) == UNION {[1..k -> S] : k \in 0..n}

Batches == SeqsUpTo(Hashes \X Offsets, MaxBatch)
Probes == SeqsUpTo(Hashes \X Offsets, MaxProbe)

Init ==
  /\ tables = FALSE
  /\ songs = {}
  /\ fingerprints = {}
  /\ song_seq = 0
  /\ issued = [k \in Names \X FileHashes |-> NoneId]
  /\ last = Idle
  /\ sessions = [t \in Workers |-> NoCall]

\* The caller has seen the outcome of its call and is ready for the next one.
Return ==
  /\ last.op # "idle"
  /\ last' = Idle
  /\ UNCHANGED <<tables, songs, fingerprints, song_seq, issued, sessions>>

\* The calls of the store machine.
Call ==
  \/ setup
  \/ empty
  \/ delete_unfingerprinted_songs
  \/ get_num_songs
  \/ get_num_fingerprints
  \/ \E sid \in Sids : set_song_fingerprinted(sid)
  \/ get_songs
  \/ \E sid \in Sids : get_song_by_id(sid)
  \/ \E h \in Hashes, sid \in Sids, offset \in Offsets :
       Cardinality(fingerprints) < MaxFingerprints /\ insert(h, sid, offset)
  \/ \E song_name \in Names, file_hash \in FileHashes : insert_song(song_name, file_hash)
  \/ get_iterable_kv_pairs
  \/ \E sid \in Sids, hashes \in Batches :
       Fits(sid, hashes, MaxFingerprints) /\ insert_hashes(sid, hashes)
  \/ \E hashes \in Probes : return_matches(hashes)

\* One caller: a call is made when the previous one has returned.
Next ==
  \/ last.op = "idle" /\ Call
  \/ Return

Spec == Init /\ [][Next]_vars

\* ---------------------------------------------------------------- the match machine
\* Songs are registered, batches inserted and probes matched, with more
\* hashes and longer probes than in the store machine.
MatchBatches == SeqsUpTo(MatchHashes \X Offsets, MaxMatchBatch)
MatchProbes == SeqsUpTo(MatchHashes \X Offsets, MaxMatchProbe)

CallMatch ==
  \/ insert_song("a", <<"0", "a">>)
  \/ \E sid \in 1..MaxSongs, hashes \in MatchBatches :
       Fits(sid, hashes, MaxMatchStored) /\ insert_hashes(sid, hashes)
  \/ \E hashes \in MatchProbes : return_matches(hashes)

NextMatch ==
  \/ last.op = "idle" /\ CallMatch
  \/ Return

\* The store of an earlier run: setup() has created the tables, nothing is stored.
InitMatch ==
  /\ tables = TRUE
  /\ songs = {}
  /\ fingerprints = {}
  /\ song_seq = 0
  /\ issued = [k \in Names \X FileHashes |-> NoneId]
  /\ last = Idle
  /\ sessions = [t \in Workers |-> NoCall]

SpecMatch == InitMatch /\ [][NextMatch]_vars

\* ---------------------------------------------------------------- the offset machine
\* Songs are registered and fingerprints inserted with offsets of either sign.
SignedOffsets == {-1, 5}
SignedBatches == SeqsUpTo(Hashes \X SignedOffsets, MaxBatch)

CallSigned ==
  \/ \E song_name \in Names : insert_song(song_name, <<"0", "a">>)
  \/ \E h \in Hashes, sid \in 1..MaxSongs, offset \in SignedOffsets :
       Cardinality(fingerprints) < MaxFingerprints /\ insert(h, sid, offset)
  \/ \E sid \in 1..MaxSongs, hashes \in SignedBatches :
       Fits(sid, hashes, MaxFingerprints) /\ insert_hashes(sid, hashes)
  \/ get_num_fingerprints

NextSigned ==
  \/ last.op = "idle" /\ CallSigned
  \/ Return

SpecSigned == InitMatch /\ [][NextSigned]_vars

\* ---------------------------------------------------------------- the concurrent machine
\* Workers run insert_song side by side, each in a session of its own, while
\* one more caller runs setup, empty, delete_unfingerprinted_songs and
\* set_song_fingerprinted.  A worker's call is two steps on the database: the
\* SELECT of one_or_none(), and the INSERT of flush() with the commit of
\* session_scope; the calls of other callers may come between the two.
ConcFileHashes == {<<"0", "a">>, <<"0", "A">>, <<"0", "b">>}

\* session.query(Song).filter_by(name=song_name).one_or_none(), and the
\* return of the identifier when a song was found.
insert_song_query(w, song_name, file_hash) ==
  /\ sessions[w].pc = "none"
  /\ LET found == {s \in songs : s.name = song_name}
     IN sessions' = [sessions EXCEPT ![w] =
          IF ~tables
          THEN [pc |-> "returned", args |-> <<song_name, file_hash>>, exc |-> "OperationalError", ret |-> << >>]
          ELSE IF Cardinality(found) > 1
          THEN [pc |-> "returned", args |-> <<song_name, file_hash>>, exc |-> "MultipleResultsFound", ret |-> << >>]
          ELSE IF found # {}
          THEN [pc |-> "returned", args |-> <<song_name, file_hash>>, exc |-> NoExc,
                ret |-> <<(CHOOSE s \in found : TRUE).song_id>>]
          ELSE [pc |-> "adding", args |-> <<song_name, file_hash>>, exc |-> NoExc, ret |-> << >>]]
  /\ UNCHANGED <<tables, songs, fingerprints, song_seq, issued, last>>

\* song = Song(...); session.add(song); session.flush(); return song.song_id,
\* then the commit of session_scope: the row is inserted into the songs table
\* as it is now, or the INSERT raises and the session is rolled back.
insert_song_flush(w) ==
  /\ sessions[w].pc = "adding"
  /\ \E seq \in Autoincrement(Store) :
     \E r \in {InsertSong(Store, sessions[w].args[1], sessions[w].args[2], seq)} :
       /\ ~tables \/ seq < MaxSongs
       /\ tables' = r.store.tables
       /\ songs' = r.store.songs
       /\ fingerprints' = r.store.fingerprints
       /\ song_seq' = r.store.song_seq
       /\ sessions' = [sessions EXCEPT ![w] =
            [pc |-> "returned", args |-> @.args, exc |-> r.exc,
             ret |-> IF r.exc = NoExc THEN <<r.id>> ELSE << >>]]
  /\ UNCHANGED <<issued, last>>

\* The worker has its identifier or its exception and is ready for the next call.
insert_song_return(w) ==
  /\ sessions[w].pc = "returned"
  /\ sessions' = [sessions EXCEPT ![w] = NoCall]
  /\ UNCHANGED <<tables, songs, fingerprints, song_seq, issued, last>>

\* The calls of the caller that maintains the store.
CallConc ==
  \/ setup
  \/ empty
  \/ delete_unfingerprinted_songs
  \/ \E sid \in Sids : set_song_fingerprinted(sid)

NextConc ==
  \/ last.op = "idle" /\ CallConc
  \/ Return
  \/ \E w \in Workers, song_name \in {"a"}, file_hash \in ConcFileHashes :
       insert_song_query(w, song_name, file_hash)
  \/ \E w \in Workers : insert_song_flush(w)
  \/ \E w \in Workers : insert_song_return(w)

SpecConc == Init /\ [][NextConc]_vars

\* ---------------------------------------------------------------- the ingest machine
\* Each worker ingests one song: insert_song, then insert_hashes with the
\* identifier it got, then set_song_fingerprinted.  Every call is one
\* transaction; between the calls of a worker the other worker and a caller
\* that runs setup() and delete_unfingerprinted_songs() take their turns.
\* The batches have one hash at the offsets 1, 2, ...: no pair occurs twice.
IngestBatches == {[i \in 1..k |-> <<<<"0", "a">>, i>>] : k \in 1..MaxBatch}

\* What the worker's call did to the store and where the worker goes next.
IngestStep(w, o, next, sid) ==
  /\ tables' = o.store.tables
  /\ songs' = o.store.songs
  /\ fingerprints' = o.store.fingerprints
  /\ song_seq' = o.store.song_seq
  /\ sessions' = [sessions EXCEPT ![w] =
       [pc |-> IF o.exc = NoExc THEN next ELSE "failed", args |-> @.args, exc |-> o.exc, ret |-> sid]]
  /\ UNCHANGED <<issued, last>>

\* The worker takes up a song name and a batch of pairs to ingest.
ingest_begin(w, song_name, hashes) ==
  /\ sessions[w].pc = "none"
  /\ ~\E v \in Workers : sessions[v].pc # "none" /\ sessions[v].args[1] = song_name
  /\ sessions' = [sessions EXCEPT ![w] =
       [pc |-> "begun", args |-> <<song_name, hashes>>, exc |-> NoExc, ret |-> << >>]]
  /\ UNCHANGED <<tables, songs, fingerprints, song_seq, issued, last>>

\* sid = insert_song(song_name, file_hash)
ingest_insert_song(w) ==
  /\ sessions[w].pc = "begun"
  /\ \E seq \in Autoincrement(Store) :
       /\ seq < MaxSongs
       /\ \E o \in {session_scope(Store, insert_song_body(Store, sessions[w].args[1], <<"0", "a">>, seq))} :
            IngestStep(w, o, "registered", o.ret)

\* insert_hashes(sid, hashes)
ingest_insert_hashes(w) ==
  /\ sessions[w].pc = "registered"
  /\ Fits(sessions[w].ret[1], sessions[w].args[2], MaxFingerprints)
  /\ \E o \in {session_scope(Store, insert_hashes_body(Store, sessions[w].ret[1], sessions[w].args[2]))} :
       IngestStep(w, o, "inserted", sessions[w].ret)

\* set_song_fingerprinted(sid)
ingest_set_song_fingerprinted(w) ==
  /\ sessions[w].pc = "inserted"
  /\ \E o \in {session_scope(Store, set_song_fingerprinted_body(Store, sessions[w].ret[1]))} :
       IngestStep(w, o, "done", sessions[w].ret)

\* The calls of the caller that maintains the store.
CallIngest ==
  \/ setup
  \/ delete_unfingerprinted_songs

NextIngest ==
  \/ last.op = "idle" /\ CallIngest
  \/ Return
  \/ \E w \in Workers, song_name \in Names, hashes \in IngestBatches : ingest_begin(w, song_name, hashes)
  \/ \E w \in Workers : ingest_insert_song(w)
  \/ \E w \in Workers : ingest_insert_hashes(w)
  \/ \E w \in Workers : ingest_set_song_fingerprinted(w)

SpecIngest == InitMatch /\ [][NextIngest]_vars

\* ---------------------------------------------------------------- properties
Count(seq, x) == Cardinality({i \in DOMAIN seq : seq[i] = x})

\* The rows a batch asks insert_hashes to store.
BatchRows(sid, hashes) == {Fingerprint(hashes[i][1], sid, hashes[i][2]) : i \in DOMAIN hashes}

\* C1: every use of session_scope opens one session and closes it last, on
\* every exit path.  A body that ends or returns without raising is followed
\* by exactly one commit, and when that commit goes through nothing is rolled
\* back and nothing is raised.  A body that raises is followed by one rollback
\* and no commit, the caller gets the body's exception, and the store is as
\* it was.
C1_SessionScope ==
  last.scoped =>
    /\ last.calls[1] = "Session"
    /\ Count(last.calls, "Session") = 1
    /\ last.calls[Len(last.calls)] = "close"
    /\ Count(last.calls, "close") = 1
    /\ last.body_exc = NoExc =>
         /\ last.exit \in {"end", "return"}
         /\ Count(last.calls, "commit") = 1
         /\ last.calls[2] = "commit"
         /\ last.committed => (last.calls = <<"Session", "commit", "close">> /\ last.exc = NoExc)
         /\ ~last.committed => (last.exc # NoExc /\ Store = last.pre)
    /\ last.body_exc # NoExc =>
         /\ last.exit = "raise"
         /\ last.calls = <<"Session", "rollback", "close">>
         /\ ~last.committed
         /\ last.exc = last.body_exc
         /\ Store = last.pre

\* A body raised inside the scope: set_song_fingerprinted on an identifier of no song.
C1_Witness ==
  /\ last.scoped
  /\ last.op = "set_song_fingerprinted"
  /\ last.body_exc = "AttributeError"
  /\ last.exc = "AttributeError"
  /\ last.calls = <<"Session", "rollback", "close">>

\* Some pair of the batch cannot be inserted: the tables are missing, the song
\* does not exist, the triple is already stored or it occurs twice in the batch.
BatchFails(st, sid, hashes) ==
  /\ hashes # << >>
  /\ \/ ~st.tables
     \/ sid \notin SongIds(st.songs)
     \/ \E i \in DOMAIN hashes : Fingerprint(hashes[i][1], sid, hashes[i][2]) \in st.fingerprints
     \/ \E i, j \in DOMAIN hashes :
          i # j /\ Fingerprint(hashes[i][1], sid, hashes[i][2]) = Fingerprint(hashes[j][1], sid, hashes[j][2])

\* C2: insert_hashes is all-or-nothing.  When some pair of the batch cannot
\* be inserted the call raises and the store is what it was before; otherwise
\* the call returns and the fingerprints are the old ones plus every row of
\* the batch.  No other outcome exists, so no strict part of a batch is stored.
C2_AllOrNothing ==
  last.op = "insert_hashes" =>
    LET sid == last.args[1]
        hashes == last.args[2]
    IN /\ BatchFails(last.pre, sid, hashes) => (last.exc # NoExc /\ Store = last.pre)
       /\ ~BatchFails(last.pre, sid, hashes) =>
            /\ last.exc = NoExc
            /\ fingerprints = last.pre.fingerprints \cup BatchRows(sid, hashes)
            /\ songs = last.pre.songs
       /\ fingerprints \in {last.pre.fingerprints, last.pre.fingerprints \cup BatchRows(sid, hashes)}

\* A batch of two whose first pair could be inserted and whose second could not.
C2_Witness ==
  /\ last.op = "insert_hashes"
  /\ Len(last.args[2]) = 2
  /\ InsertFingerprint(last.pre, Fingerprint(last.args[2][1][1], last.args[1], last.args[2][1][2])).exc = NoExc
  /\ last.exc = "IntegrityError"
  /\ fingerprints = last.pre.fingerprints

\* C3: when insert_song(name, file_hash) is called again with the arguments of
\* an earlier call whose song has not been deleted since, it returns the
\* identifier the earlier call returned and the songs table is unchanged.
C3_InsertSongTwice ==
  (last.op = "insert_song" /\ last.prior # NoneId) =>
    /\ last.exc = NoExc
    /\ last.ret = <<last.prior>>
    /\ songs = last.pre.songs
    /\ song_seq = last.pre.song_seq

\* The second call comes after the song was changed by set_song_fingerprinted.
C3_Witness ==
  /\ last.op = "insert_song"
  /\ last.prior # NoneId
  /\ last.ret = <<last.prior>>
  /\ \E s \in songs : s.song_id = last.ret[1] /\ s.fingerprinted

\* C4: no two stored songs have the same (name, file_sha1) pair, in every
\* state reached by insert_song calls of several callers, run one after
\* another or side by side, and by set_song_fingerprinted, setup, empty and
\* delete_unfingerprinted_songs calls.
C4_UniquePair ==
  \A s1, s2 \in songs :
    (s1.name = s2.name /\ s1.file_sha1 = s2.file_sha1) => s1 = s2

\* Two workers found no song of the name and both went on to INSERT the same
\* pair, one of them in the other letter case: the second INSERT was refused.
C4_Witness ==
  /\ sessions["w1"].pc = "returned"
  /\ sessions["w1"].exc = NoExc
  /\ sessions["w1"].args = <<"a", <<"0", "a">>>>
  /\ sessions["w2"].pc = "returned"
  /\ sessions["w2"].exc = "IntegrityError"
  /\ sessions["w2"].args = <<"a", <<"0", "A">>>>
  /\ \E s \in songs : s.song_id = sessions["w1"].ret[1] /\ s.name = "a"

\* C9: a song with fingerprinted = false is in no record of get_songs(), is
\* not counted by get_num_songs() and is the record of get_song_by_id of its
\* identifier; get_num_songs() is the number of songs with fingerprinted = true.
C9_Unfingerprinted ==
  /\ (last.op = "get_songs" /\ last.exc = NoExc) =>
       /\ \A S \in songs : ~S.fingerprinted =>
            \A i \in DOMAIN last.ret : last.ret[i].song_id # S.song_id
       /\ \A i \in DOMAIN last.ret : last.ret[i].fingerprinted = 1
       /\ Len(last.ret) = Cardinality({S \in songs : S.fingerprinted})
  /\ (last.op = "get_num_songs" /\ last.exc = NoExc) =>
       /\ last.ret = <<Cardinality(songs) - Cardinality({S \in songs : ~S.fingerprinted})>>
       /\ last.ret = <<Cardinality({S \in songs : S.fingerprinted})>>
  /\ (last.op = "get_song_by_id" /\ tables) =>
       \A S \in songs : (S.song_id = last.args[1] /\ ~S.fingerprinted) =>
         (last.exc = NoExc /\ last.ret = <<song_to_dict(S)>>)

\* get_songs() was called with one finished and one unfinished song stored.
C9_Witness ==
  /\ last.op = "get_songs"
  /\ Len(last.ret) = 1
  /\ \E S \in songs : ~S.fingerprinted
  /\ \E S \in songs : S.fingerprinted

\* The fingerprints owned by the songs that have fingerprinted = false.
OwnedByUnfingerprinted(st) ==
  {f \in st.fingerprints : \E s \in st.songs : s.song_id = f.song_id /\ ~s.fingerprinted}

Range(seq) == {seq[i] : i \in DOMAIN seq}

\* The hashes of a probe, as bytes.
ProbedHashes(hashes) == {fromhex(hashes[i][1]) : i \in DOMAIN hashes}

\* The offset a probe gives with the last occurrence of a hash.
LastOffset(hashes, k) ==
  LET at == {i \in DOMAIN hashes : fromhex(hashes[i][1]) = k}
  IN hashes[CHOOSE i \in at : \A j \in at : j <= i][2]

\* The correspondence of a stored row under a probe.
Correspondence(hashes, f) == <<f.song_id, f.song_offset - LastOffset(hashes, f.hash)>>

\* result holds exactly one correspondence for each row of rows.
OnePerRow(result, hashes, rows) ==
  /\ Len(result) = Cardinality(rows)
  /\ \A f \in rows :
       Count(result, Correspondence(hashes, f)) =
         Cardinality({g \in rows : Correspondence(hashes, g) = Correspondence(hashes, f)})

C6_LastOffsetWins ==
  (last.op = "return_matches" /\ last.exc = NoExc) =>
    /\ \A i \in DOMAIN last.ret :
         Count(last.ret, last.ret[i]) <=
           Cardinality({f \in fingerprints : /\ f.hash \in ProbedHashes(last.args[1])
                                              /\ Correspondence(last.args[1], f) = last.ret[i]})
    /\ \A H1, H2 \in {<<"0", "a">>, <<"0", "A">>}, X \in 1..MaxSongs :
         (last.args[1] = <<<<H1, 5>>, <<H2, 9>>>> /\ fingerprints = {Fingerprint(H1, X, 9)}) =>
           last.ret = <<<<X, 0>>>>

\* The probe of the claim, with the stored row of the claim.
C6_Witness ==
  /\ last.op = "return_matches"
  /\ last.args[1] = <<<<<<"0", "a">>, 5>>, <<<<"0", "a">>, 9>>>>
  /\ fingerprints = {Fingerprint(<<"0", "a">>, 1, 9)}
  /\ last.ret = <<<<1, 0>>>>

\* What a caller gets from list(return_matches(hashes)) on store st.
Matches(st, hashes) == session_scope(st, return_matches_body(st, hashes)).ret

\* The last pair of the probe that carries hash k.
LastPair(hashes, k) ==
  LET at == {i \in DOMAIN hashes : fromhex(hashes[i][1]) = k}
  IN hashes[CHOOSE i \in at : \A j \in at : j <= i]

\* The distinct hashes of a probe cut into consecutive sub-chunks of at most
\* limit hashes, each as a probe of its own.
SubProbes(hashes, limit) ==
  LET keys == MapperKeys(hashes)
  IN [c \in 1..((Len(keys) + limit - 1) \div limit) |->
        [j \in 1..(IF c * limit <= Len(keys) THEN limit ELSE Len(keys) - (c - 1) * limit) |->
           LastPair(hashes, keys[(c - 1) * limit + j])]]

\* The result of the whole probe is, as a set, the results of its sub-chunks.
SameAsSubChunks(result, st, hashes) ==
  LET subs == SubProbes(hashes, GrouperN)
  IN Range(result) = UNION {Range(Matches(st, subs[c])) : c \in DOMAIN subs}

\* No chunk is longer than the limit and no hash is in two chunks or twice in one.
ChunksDisjoint(chunks) ==
  /\ \A c \in DOMAIN chunks : Len(chunks[c]) <= GrouperN /\ Cardinality(Range(chunks[c])) = Len(chunks[c])
  /\ \A c, d \in DOMAIN chunks : c # d => Range(chunks[c]) \cap Range(chunks[d]) = {}

\* C7 as claimed: for a probe with more distinct hashes than the limit the
\* result is that of the sub-chunks, and the chunks of _grouper are disjoint
\* and cover every distinct probed hash.
C7_Original ==
  (last.op = "return_matches" /\ last.exc = NoExc /\ Len(MapperKeys(last.args[1])) > GrouperN) =>
    LET chunks == grouper(MapperKeys(last.args[1]), GrouperN)
    IN /\ SameAsSubChunks(last.ret, Store, last.args[1])
       /\ ChunksDisjoint(chunks)
       /\ UNION {Range(chunks[c]) : c \in DOMAIN chunks} = ProbedHashes(last.args[1])

\* C7: for a probe with more distinct hashes than the limit the result is, as
\* a set, that of its sub-chunks run one by one; the chunks of _grouper are no
\* longer than the limit, disjoint, free of padding, and cover every distinct
\* probed hash except the empty one, which goes with the padding.
C7_Chunks ==
  (last.op = "return_matches" /\ last.exc = NoExc /\ Len(MapperKeys(last.args[1])) > GrouperN) =>
    LET chunks == grouper(MapperKeys(last.args[1]), GrouperN)
    IN /\ SameAsSubChunks(last.ret, Store, last.args[1])
       /\ ChunksDisjoint(chunks)
       /\ UNION {Range(chunks[c]) : c \in DOMAIN chunks} = ProbedHashes(last.args[1]) \ {<< >>}

\* Three distinct hashes, none empty: two chunks, and a stored row was found
\* through each of them.
C7_Witness ==
  /\ last.op = "return_matches"
  /\ Len(MapperKeys(last.args[1])) = 3
  /\ << >> \notin ProbedHashes(last.args[1])
  /\ Len(last.ret) = 2
  /\ \E f \in fingerprints : f.hash = MapperKeys(last.args[1])[1]
  /\ \E f \in fingerprints : f.hash = MapperKeys(last.args[1])[3]

\* C8 as claimed: after insert_hashes(sid, pairs) has succeeded,
\* return_matches(pairs) yields at least Len(pairs) correspondences (sid, 0).
C8_Original ==
  (last.op = "insert_hashes" /\ last.exc = NoExc) =>
    Count(Matches(Store, last.args[2]), <<last.args[1], 0>>) >= Len(last.args[2])

\* C8: after insert_hashes(sid, pairs) has succeeded, return_matches(pairs)
\* yields at least one correspondence (sid, 0) for every distinct hash of the
\* pairs that is not empty: N of them when the N hashes are distinct and not empty.
C8_RoundTrip ==
  (last.op = "insert_hashes" /\ last.exc = NoExc) =>
    Count(Matches(Store, last.args[2]), <<last.args[1], 0>>)
      >= Cardinality(ProbedHashes(last.args[2]) \ {<< >>})

\* A batch of two distinct hashes was stored and comes back as two
\* correspondences with difference 0.
C8_Witness ==
  /\ last.op = "insert_hashes"
  /\ last.exc = NoExc
  /\ Len(last.args[2]) = 2
  /\ Cardinality(ProbedHashes(last.args[2]) \ {<< >>}) = 2
  /\ Count(Matches(Store, last.args[2]), <<last.args[1], 0>>) = 2

\* The rows the last insert or insert_hashes call asked the store to hold.
AskedRows ==
  IF last.op = "insert"
  THEN <<Fingerprint(last.args[1], last.args[2], last.args[3])>>
  ELSE [i \in DOMAIN last.args[2] |->
          Fingerprint(last.args[2][i][1], last.args[1], int(last.args[2][i][2]))]

C12_SoftFailure ==
  (/\ last.op = "set_song_fingerprinted"
   /\ last.pre.tables
   /\ last.args[1] \notin SongIds(last.pre.songs)) =>
    /\ last.exc = NoExc
    /\ songs = last.pre.songs
    /\ \A i \in DOMAIN last.calls : last.calls[i] # "rollback"

\* The fingerprints stored under song s.
FingerprintsOf(st, s) == {f \in st.fingerprints : f.song_id = s.song_id}

\* C13: setup() raises nothing, keeps every song that had fingerprinted =
\* true with the same fields and the same fingerprints, and a second setup()
\* right after it raises nothing and leaves the store as the first one left it.
C13_SetupIdempotent ==
  last.op = "setup" =>
    /\ last.exc = NoExc
    /\ tables
    /\ \A s \in last.pre.songs :
         s.fingerprinted => (s \in songs /\ FingerprintsOf(Store, s) = FingerprintsOf(last.pre, s))
    /\ setup_run(Store).exc = NoExc
    /\ setup_run(Store).store = Store

\* setup() was called on a store with a finished song that owns a
\* fingerprint and an unfinished song, which it pruned.
C13_Witness ==
  /\ last.op = "setup"
  /\ last.pre.tables
  /\ \E s \in last.pre.songs : s.fingerprinted /\ FingerprintsOf(last.pre, s) # {} /\ s \in songs
  /\ \E s \in last.pre.songs : ~s.fingerprinted
  /\ Cardinality(songs) = 1

\* C14: empty() raises nothing, the setup() after it raises nothing, and
\* then get_num_songs() and get_num_fingerprints() are both 0.
C14_EmptyThenSetup ==
  last.op = "empty" =>
    /\ last.exc = NoExc
    /\ LET after == setup_run(Store)
       IN /\ after.exc = NoExc
          /\ after.store.tables
          /\ session_scope(after.store, get_num_songs_body(after.store)).ret = <<0>>
          /\ session_scope(after.store, get_num_fingerprints_body(after.store)).ret = <<0>>

\* C15: the song_id insert_song returns for a song it has created is greater
\* than the song_id given to the song created last before it, and so than
\* every song_id given out before, pruned songs included.
C15_NeverReused ==
  (/\ last.op = "insert_song"
   /\ last.exc = NoExc
   /\ last.ret[1] \notin SongIds(last.pre.songs)) =>
    last.ret[1] > last.pre.song_seq

\* C16: when an operation has returned or raised (a streaming one: when its
\* sequence is exhausted) it has opened at most one session, a session it
\* opened has been closed, and it has committed at most once.
C16_SessionsReleased ==
  last.op # "idle" =>
    /\ Count(last.calls, "Session") <= 1
    /\ Count(last.calls, "commit") <= 1
    /\ Count(last.calls, "Session") = 1 =>
         (Count(last.calls, "close") = 1 /\ last.calls[Len(last.calls)] = "close")

\* C17: every stored fingerprint has song_offset >= 0, whatever integer
\* offsets insert and insert_hashes were given.
C17_NonNegativeOffsets ==
  \A f \in fingerprints : f.song_offset >= 0

\* C18: a song is created by insert_song with fingerprinted = false; a
\* stored song changes only by set_song_fingerprinted, which sets its flag to
\* true and nothing else; a song with fingerprinted = true stays as it is in
\* every step in which it still exists; the songs table changes only in
\* insert_song, set_song_fingerprinted, pruning and reset.
C18_FlagMonotonic ==
  [][/\ \A t \in songs' :
          t.song_id \notin SongIds(songs) => (~t.fingerprinted /\ last'.op = "insert_song")
     /\ \A s \in songs : \A t \in songs' :
          (s.song_id = t.song_id /\ s # t) =>
            /\ last'.op = "set_song_fingerprinted"
            /\ ~s.fingerprinted
            /\ t = [s EXCEPT !.fingerprinted = TRUE]
     /\ \A s \in songs : \A t \in songs' :
          (s.song_id = t.song_id /\ s.fingerprinted) => t = s
     /\ songs' # songs =>
          last'.op \in {"insert_song", "set_song_fingerprinted",
                        "delete_unfingerprinted_songs", "setup", "empty"}]_vars

\* set_song_fingerprinted was called for a song that was finished already,
\* with another, unfinished song stored.
C18_Witness ==
  /\ last.op = "set_song_fingerprinted"
  /\ last.exc = NoExc
  /\ \E s \in last.pre.songs : s.song_id = last.args[1] /\ s.fingerprinted /\ s \in songs
  /\ \E s \in songs : ~s.fingerprinted

\* C19: once every insert_song call of the workers has finished, at most one
\* song of each name is stored and a later insert_song with that name does
\* not fail on finding several.
C19_OneSongPerName ==
  (\A w \in Workers : sessions[w].pc # "adding") =>
    /\ \A s1, s2 \in songs : s1.name = s2.name => s1 = s2
    /\ \A s \in songs :
         insert_song_body(Store, s.name, hex(s.file_sha1), song_seq).exc # "MultipleResultsFound"

\* C20: whatever the other callers do in between, no step of a worker's
\* ingest sequence fails, and when the sequence is done the song is stored
\* with fingerprinted = true and every fingerprint of the batch under it.
C20_IngestSucceeds ==
  \A w \in Workers :
    /\ sessions[w].pc # "failed"
    /\ sessions[w].pc = "done" =>
         /\ \E s \in songs : /\ s.song_id = sessions[w].ret[1]
                               /\ s.name = sessions[w].args[1]
                               /\ s.fingerprinted
         /\ BatchRows(sessions[w].ret[1], sessions[w].args[2]) \subseteq fingerprints

====
